---- MODULE Spec2Model ----
(***************************************************************************)
(* Bundle::from_file and <Bundle as FromStr>::from_str of src/cnab.rs:     *)
(* the canonical decode, the fallback to the permissive decode on          *)
(* Syntax(UnexpectedWhitespace), and the three BundleParseError kinds.     *)
(*                                                                         *)
(* A JSON text is a top-level object: its members in textual order, the    *)
(* place of its first insignificant whitespace, and whether the text ends  *)
(* before the closing brace.  Both decoders read the text front to back    *)
(* and stop at the first error, as streaming serde deserializers do.       *)
(* The file at the path is part of the state: other processes may remove   *)
(* or rewrite it while from_file runs.                                     *)
(***************************************************************************)
EXTENDS Integers, Sequences, FiniteSets, TLC

\* ---------------------------------------------------------------- bounds
\* At most this many of the four required keys are missing from a text.
MaxMissing == 1
\* At most this many optional keys are present in a text.
MaxOptional == 1
\* An adjacent pair of members is exchanged at one of the places 1..MaxSwap.
MaxSwap == 1
\* Whitespace starts before one of the members 1..MaxWs, or before the "}".
MaxWs == 2
\* Other processes change the file at most this often during one call.
MaxEnvSteps == 1

\* ------------------------------------------------------------ the schema
\* Option<T>: None is the empty sequence, Some(v) the sequence of v alone.
None == <<>>

Some(v) == <<v>>

\* Bundle's non-Option fields, by their JSON names (serde rename).
RequiredKeys == {"invocationImages", "name", "schemaVersion", "version"}

\* The Option fields of Bundle that the model carries.  credentials, custom,
\* images, keywords, license and maintainers are declared like description.
OptionalKeys == {"actions", "description", "parameters"}

\* The modelled keys in lexicographic (byte) order, the order of canonical JSON.
KeyOrder ==
  <<"actions", "description", "invocationImages", "name", "parameters",
    "schemaVersion", "version">>

Rank(k) == CHOOSE i \in 1..Len(KeyOrder) : KeyOrder[i] = k

\* A JSON key that may be absent (<<>>) or hold true or false.
JsonOptBool == {<<>>, <<TRUE>>, <<FALSE>>}

\* JSON objects of a Parameter: destination and type are given, required may be absent.
ParameterObjects ==
  [destination : {[env |-> "PORT"]}, type : {"string"}, required : JsonOptBool]

\* JSON objects of an Action: modifies and stateless may be absent.
ActionObjects == [modifies : JsonOptBool, stateless : JsonOptBool]

\* The JSON values a text gives to a key.
ValuesOf(k) ==
  CASE k = "name" -> {"helloworld"}
    [] k = "schemaVersion" -> {"1.0"}
    [] k = "version" -> {"0.1.0"}
    [] k = "description" -> {"hello"}
    [] k = "invocationImages" -> {<<[image |-> "example/helloworld:latest"]>>}
    [] k = "parameters" -> {[port |-> p] : p \in ParameterObjects}
    [] k = "actions" -> {[status |-> a] : a \in ActionObjects}

\* Mutant of DecodeParameter: required without #[serde(default)] semantics, a
\* parameter that does not say otherwise is required.
DecodeParameterRequiredByDefault(o) ==
  [destination |-> o.destination,
   required |-> IF o.required = <<>> THEN TRUE ELSE o.required[1],
   parameter_type |-> o.type]

\* #[serde(default)] pub required: bool, and the two required fields.
DecodeParameter(o) ==
  [destination |-> o.destination,
   required |-> IF o.required = <<>> THEN FALSE ELSE o.required[1],
   parameter_type |-> o.type]

\* #[serde(default)] pub modifies: bool, #[serde(default)] pub stateless: bool.
DecodeAction(o) ==
  [modifies |-> IF o.modifies = <<>> THEN FALSE ELSE o.modifies[1],
   stateless |-> IF o.stateless = <<>> THEN FALSE ELSE o.stateless[1]]

\* A member "k": v of the top-level object; the field that holds v tells its JSON type.
Member(k, v) ==
  CASE k \in {"actions", "parameters"} -> [k |-> k, map |-> v]
    [] k = "invocationImages" -> [k |-> k, list |-> v]
    [] OTHER -> [k |-> k, str |-> v]

ValueOf(m) ==
  CASE m.k \in {"actions", "parameters"} -> m.map
    [] m.k = "invocationImages" -> m.list
    [] OTHER -> m.str

\* Whether the member list holds key k, and the value it gives it.
Has(mem, k) == \E i \in 1..Len(mem) : mem[i].k = k

Get(mem, k) == ValueOf(mem[CHOOSE i \in 1..Len(mem) : mem[i].k = k])

\* The required fields a member list lacks.
MissingRequired(mem) == {k \in RequiredKeys : ~Has(mem, k)}

\* The field the derived visitor names: the first missing one in declaration order.
FirstMissing(mem) ==
  CHOOSE k \in MissingRequired(mem) :
    \A j \in MissingRequired(mem) : Rank(k) <= Rank(j)

\* Mutant of DecodeBundle: the description member is skipped.
DecodeBundleSkipsDescription(mem) ==
  [actions |->
     IF Has(mem, "actions")
       THEN Some([n \in DOMAIN Get(mem, "actions") |->
                    DecodeAction(Get(mem, "actions")[n])])
       ELSE None,
   description |-> None,
   invocation_images |-> Get(mem, "invocationImages"),
   name |-> Get(mem, "name"),
   parameters |->
     IF Has(mem, "parameters")
       THEN Some([n \in DOMAIN Get(mem, "parameters") |->
                    DecodeParameter(Get(mem, "parameters")[n])])
       ELSE None,
   schema_version |-> Get(mem, "schemaVersion"),
   version |-> Get(mem, "version")]

\* The derived Deserialize of Bundle on a member list that holds every required key:
\* an absent Option field is None, a map is decoded entry by entry.
DecodeBundle(mem) ==
  [actions |->
     IF Has(mem, "actions")
       THEN Some([n \in DOMAIN Get(mem, "actions") |->
                    DecodeAction(Get(mem, "actions")[n])])
       ELSE None,
   description |->
     IF Has(mem, "description") THEN Some(Get(mem, "description")) ELSE None,
   invocation_images |-> Get(mem, "invocationImages"),
   name |-> Get(mem, "name"),
   parameters |->
     IF Has(mem, "parameters")
       THEN Some([n \in DOMAIN Get(mem, "parameters") |->
                    DecodeParameter(Get(mem, "parameters")[n])])
       ELSE None,
   schema_version |-> Get(mem, "schemaVersion"),
   version |-> Get(mem, "version")]

\* ------------------------------------------------------------- the texts
Min(a, b) == IF a < b THEN a ELSE b

\* The member lists with sorted keys built from the keys KeyOrder[i..].
RECURSIVE SortedMembersFrom(_)
SortedMembersFrom(i) ==
  IF i > Len(KeyOrder) THEN {<<>>}
  ELSE LET rest == SortedMembersFrom(i + 1)
           k == KeyOrder[i]
       IN  rest \cup {<<Member(k, v)>> \o r : v \in ValuesOf(k), r \in rest}

KeysOf(mem) == {mem[i].k : i \in 1..Len(mem)}

SortedMembers ==
  {m \in SortedMembersFrom(1) :
     /\ Cardinality(RequiredKeys \ KeysOf(m)) <= MaxMissing
     /\ Cardinality(KeysOf(m) \cap OptionalKeys) <= MaxOptional}

\* Members s and s+1 exchanged (s = 0: none).
SwapAt(mem, s) ==
  IF s = 0 THEN mem
  ELSE [i \in 1..Len(mem) |->
          IF i = s THEN mem[s + 1] ELSE IF i = s + 1 THEN mem[s] ELSE mem[i]]

\* The places where an exchange may be made in a list of n members.
SwapPlaces(n) == 0..Min(MaxSwap, n - 1)

\* The places where the first whitespace may stand in a text of n members.
WsPlaces(n) == (0..Min(MaxWs, n)) \cup {n + 1}

\* ws = 0: no insignificant whitespace; ws = i: the first whitespace stands right
\* before member i; ws = Len(mem) + 1: right before the closing brace.
\* eof: the text ends where the closing brace should be.
Texts ==
  UNION {{[mem |-> SwapAt(m, s), ws |-> w, eof |-> e] :
            s \in SwapPlaces(Len(m)), w \in WsPlaces(Len(m)), e \in BOOLEAN} :
         m \in SortedMembers}

\* The texts other processes write to the file: the canonical form of the
\* smallest bundle, and the same without its name.
Smallest ==
  <<Member("invocationImages", <<[image |-> "example/helloworld:latest"]>>),
    Member("name", "helloworld"),
    Member("schemaVersion", "1.0"),
    Member("version", "0.1.0")>>

EnvTexts ==
  {[mem |-> Smallest, ws |-> 0, eof |-> FALSE],
   [mem |-> <<Smallest[1], Smallest[3], Smallest[4]>>, ws |-> 0, eof |-> FALSE]}

\* ----------------------------------------------------------- the decoders
\* The wrapped error: its kind, its code, and the field a missing-field error names.
NoErr == [kind |-> "", code |-> "", field |-> ""]

DecOk(b) == [ok |-> TRUE, err |-> NoErr, bundle |-> Some(b)]

DecErr(kind, code, field) ==
  [ok |-> FALSE, err |-> [kind |-> kind, code |-> code, field |-> field], bundle |-> None]

NotRun == DecErr("", "not run", "")

\* The canonical parser on the members from i on: the code of the first syntax
\* error, "" when there is none.  Whitespace before a token is met before the
\* token; a key out of order is met, when the parser checks the order, at that key.
RECURSIVE CanonicalSyntax(_, _, _)
CanonicalSyntax(t, i, checksOrder) ==
  IF t.ws = i THEN "UnexpectedWhitespace"
  ELSE IF i > Len(t.mem)
    THEN IF t.eof THEN "EOFWhileParsingObject" ELSE ""
  ELSE IF checksOrder /\ i > 1 /\ Rank(t.mem[i].k) <= Rank(t.mem[i - 1].k)
    THEN "KeyOrder"
  ELSE CanonicalSyntax(t, i + 1, checksOrder)

\* canonical_json::from_str::<Bundle>: a syntax error where the text is not
\* canonical, then the derived visitor's missing-field error at the end of the map.
CanonicalFromStr(t, checksOrder) ==
  LET code == CanonicalSyntax(t, 1, checksOrder)
  IN  IF code # "" THEN DecErr("Syntax", code, "")
      ELSE IF MissingRequired(t.mem) # {}
        THEN DecErr("Syntax", "MissingField", FirstMissing(t.mem))
      ELSE DecOk(DecodeBundle(t.mem))

\* serde_json::from_str::<Bundle>: whitespace and key order are no errors.
SerdeFromStr(t) ==
  IF t.eof THEN DecErr("Syntax", "EOFWhileParsingObject", "")
  ELSE IF MissingRequired(t.mem) # {}
    THEN DecErr("Data", "MissingField", FirstMissing(t.mem))
  ELSE DecOk(DecodeBundle(t.mem))

\* What an open file yields when read: a directory opens but cannot be read.
\* canonical_json::from_reader and serde_json::from_reader report the read
\* failure as their own Io error.
CanonicalFromReader(h, checksOrder) ==
  IF h.kind = "dir" THEN DecErr("Io", "ReadFailed", "")
  ELSE CanonicalFromStr(h.text, checksOrder)

SerdeFromReader(h) ==
  IF h.kind = "dir" THEN DecErr("Io", "ReadFailed", "") ELSE SerdeFromStr(h.text)

\* The match arm canonical_json::Error::Syntax(SyntaxError::UnexpectedWhitespace, _, _).
IsUnexpectedWhitespace(r) ==
  ~r.ok /\ r.err.kind = "Syntax" /\ r.err.code = "UnexpectedWhitespace"

\* ------------------------------------------------------ Result<Bundle, _>
NoResult == [tag |-> "none", variant |-> "", err |-> NoErr, bundle |-> None]

Ok(b) == [tag |-> "Ok", variant |-> "", err |-> NoErr, bundle |-> b]

\* impl From<std::io::Error>, From<serde_json::Error>, From<canonical_json::Error>.
FromIoError(e) == [tag |-> "Err", variant |-> "IoError", err |-> e, bundle |-> None]

FromSerdeError(e) ==
  [tag |-> "Err", variant |-> "SerdeJSONError", err |-> e, bundle |-> None]

\* Mutant of FromCanonicalError: the conversion builds the wrong variant.
FromCanonicalErrorAsIo(e) ==
  [tag |-> "Err", variant |-> "IoError", err |-> e, bundle |-> None]

FromCanonicalError(e) ==
  [tag |-> "Err", variant |-> "CanonicalJSONError", err |-> e, bundle |-> None]

\* from_str as a function of its text: lines 103-128 run to their end.
FromStrOutcome(t, checksOrder) ==
  LET c == CanonicalFromStr(t, checksOrder)
  IN  IF c.ok THEN Ok(c.bundle)
      ELSE IF IsUnexpectedWhitespace(c)
        THEN LET b == SerdeFromStr(t)
             IN  IF b.ok THEN Ok(b.bundle) ELSE FromSerdeError(b.err)
      ELSE FromCanonicalError(c.err)

\* ---------------------------------------------------------------- state
VARIABLES
  checksKeyOrder, \* whether the canonical parser of this build rejects unsorted keys
  fs,             \* what is at file_path: nothing that opens ("missing"), what opens
                  \* and cannot be read ("dir"), or a regular file and its text
  handle,         \* the File the call holds: its kind and content
  linked,         \* whether that File is still the file at file_path
  entry,          \* "from_str" or "from_file", "" before the call
  pc,             \* the call's position
  json_data,      \* from_str's argument
  canonRes,       \* the canonical decode's result (res / bundle)
  serdeRes,       \* the permissive decode's result (b)
  result,         \* what the call returned
  canonCalls,     \* how often the canonical decode was started
  serdeCalls,     \* how often the permissive decode was started
  readA,          \* the content the canonical decode read, if any
  readB,          \* the content the permissive decode read, if any
  held,           \* every state the file was in during the from_file call
  openLog,        \* the outcome of each File::open of the call, in order
  envSteps        \* the changes other processes made during the call

vars ==
  <<checksKeyOrder, fs, handle, linked, entry, pc, json_data, canonRes, serdeRes,
    result, canonCalls, serdeCalls, readA, readB, held, openLog, envSteps>>

\* The placeholder for the text of what is no regular file.
NoText == [mem |-> <<>>, ws |-> 0, eof |-> FALSE]

Missing == [kind |-> "missing", text |-> NoText]

Directory == [kind |-> "dir", text |-> NoText]

RegularFile(t) == [kind |-> "file", text |-> t]

Init ==
  /\ checksKeyOrder \in BOOLEAN
  /\ json_data \in Texts
  /\ fs \in {Missing, Directory, RegularFile(json_data)}
  /\ handle = Missing
  /\ linked = FALSE
  /\ entry = ""
  /\ pc = "idle"
  /\ canonRes = NotRun
  /\ serdeRes = NotRun
  /\ result = NoResult
  /\ canonCalls = 0
  /\ serdeCalls = 0
  /\ readA = None
  /\ readB = None
  /\ held = {}
  /\ openLog = <<>>
  /\ envSteps = 0

\* ------------------------------------------------------------- from_str
\* The caller enters Bundle::from_str(json_data).
CallFromStr ==
  /\ pc = "idle"
  /\ entry' = "from_str"
  /\ pc' = "str_canonical"
  /\ UNCHANGED <<checksKeyOrder, fs, handle, linked, json_data, canonRes, serdeRes,
                 result, canonCalls, serdeCalls, readA, readB, held, openLog, envSteps>>

\* Mutant of StrCanonical: no arm for UnexpectedWhitespace, every canonical
\* failure is returned.
StrCanonicalNoFallback ==
  /\ pc = "str_canonical"
  /\ LET bundle == CanonicalFromStr(json_data, checksKeyOrder)
     IN  /\ canonRes' = bundle
         /\ result' = IF bundle.ok THEN Ok(bundle.bundle)
                      ELSE FromCanonicalError(bundle.err)
  /\ pc' = "done"
  /\ canonCalls' = canonCalls + 1
  /\ readA' = Some(json_data)
  /\ UNCHANGED <<checksKeyOrder, fs, handle, linked, entry, json_data, serdeRes,
                 serdeCalls, readB, held, openLog, envSteps>>

\* Lines 104-127: the canonical decode and the match on its result.
StrCanonical ==
  /\ pc = "str_canonical"
  /\ LET bundle == CanonicalFromStr(json_data, checksKeyOrder)
     IN  /\ canonRes' = bundle
         /\ IF bundle.ok
              THEN result' = Ok(bundle.bundle) /\ pc' = "done"
            ELSE IF IsUnexpectedWhitespace(bundle)
              THEN result' = result /\ pc' = "str_permissive"
            ELSE result' = FromCanonicalError(bundle.err) /\ pc' = "done"
  /\ canonCalls' = canonCalls + 1
  /\ readA' = Some(json_data)
  /\ UNCHANGED <<checksKeyOrder, fs, handle, linked, entry, json_data, serdeRes,
                 serdeCalls, readB, held, openLog, envSteps>>

\* Lines 116-120: the permissive decode of the same text; its result is returned.
StrPermissive ==
  /\ pc = "str_permissive"
  /\ LET b == SerdeFromStr(json_data)
     IN  /\ serdeRes' = b
         /\ result' = IF b.ok THEN Ok(b.bundle) ELSE FromSerdeError(b.err)
  /\ serdeCalls' = serdeCalls + 1
  /\ readB' = Some(json_data)
  /\ pc' = "done"
  /\ UNCHANGED <<checksKeyOrder, fs, handle, linked, entry, json_data, canonRes,
                 canonCalls, readA, held, openLog, envSteps>>

\* ------------------------------------------------------------ from_file
\* The caller enters Bundle::from_file(file_path).
CallFromFile ==
  /\ pc = "idle"
  /\ entry' = "from_file"
  /\ pc' = "file_open"
  /\ held' = {fs}
  /\ UNCHANGED <<checksKeyOrder, fs, handle, linked, json_data, canonRes, serdeRes,
                 result, canonCalls, serdeCalls, readA, readB, openLog, envSteps>>

\* Mutant of FileOpen: the failure of the open is not returned, the call goes on
\* to decode.
FileOpenIgnoresFailure ==
  /\ pc = "file_open"
  /\ openLog' = Append(openLog, IF fs.kind = "missing" THEN "failed" ELSE "opened")
  /\ handle' = fs
  /\ linked' = (fs.kind # "missing")
  /\ pc' = "file_canonical"
  /\ UNCHANGED <<checksKeyOrder, fs, entry, json_data, canonRes, serdeRes, result,
                 canonCalls, serdeCalls, readA, readB, held, envSteps>>

\* Line 71: File::open(..)?  A failure returns IoError; a directory opens.
FileOpen ==
  /\ pc = "file_open"
  /\ openLog' = Append(openLog, IF fs.kind = "missing" THEN "failed" ELSE "opened")
  /\ IF fs.kind = "missing"
       THEN /\ result' = FromIoError([kind |-> "Io", code |-> "NotFound", field |-> ""])
            /\ pc' = "done"
            /\ UNCHANGED <<handle, linked>>
       ELSE /\ handle' = fs
            /\ linked' = TRUE
            /\ pc' = "file_canonical"
            /\ UNCHANGED result
  /\ UNCHANGED <<checksKeyOrder, fs, entry, json_data, canonRes, serdeRes,
                 canonCalls, serdeCalls, readA, readB, held, envSteps>>

\* Lines 72-94: the canonical decode of the open file and the match on its result.
FileCanonical ==
  /\ pc = "file_canonical"
  /\ LET res == CanonicalFromReader(handle, checksKeyOrder)
     IN  /\ canonRes' = res
         /\ IF res.ok
              THEN result' = Ok(res.bundle) /\ pc' = "done"
            ELSE IF IsUnexpectedWhitespace(res)
              THEN result' = result /\ pc' = "file_reopen"
            ELSE result' = FromCanonicalError(res.err) /\ pc' = "done"
  /\ canonCalls' = canonCalls + 1
  /\ readA' = IF handle.kind = "file" THEN Some(handle.text) ELSE None
  /\ UNCHANGED <<checksKeyOrder, fs, handle, linked, entry, json_data, serdeRes,
                 serdeCalls, readB, held, openLog, envSteps>>

\* Line 84: File::open(..).expect("file not found"): a failure panics.
FileReopen ==
  /\ pc = "file_reopen"
  /\ openLog' = Append(openLog, IF fs.kind = "missing" THEN "failed" ELSE "opened")
  /\ IF fs.kind = "missing"
       THEN pc' = "panicked" /\ UNCHANGED <<handle, linked>>
       ELSE handle' = fs /\ linked' = TRUE /\ pc' = "file_permissive"
  /\ UNCHANGED <<checksKeyOrder, fs, entry, json_data, canonRes, serdeRes, result,
                 canonCalls, serdeCalls, readA, readB, held, envSteps>>

\* Mutant of FilePermissive: a failure of the permissive decode returns the
\* canonical decode's error instead.
FilePermissiveReturnsFirstError ==
  /\ pc = "file_permissive"
  /\ LET b == SerdeFromReader(handle)
     IN  /\ serdeRes' = b
         /\ result' = IF b.ok THEN Ok(b.bundle) ELSE FromCanonicalError(canonRes.err)
  /\ serdeCalls' = serdeCalls + 1
  /\ readB' = IF handle.kind = "file" THEN Some(handle.text) ELSE None
  /\ pc' = "done"
  /\ UNCHANGED <<checksKeyOrder, fs, handle, linked, entry, json_data, canonRes,
                 canonCalls, readA, held, openLog, envSteps>>

\* Lines 85-89: the permissive decode of the reopened file; its result is returned.
FilePermissive ==
  /\ pc = "file_permissive"
  /\ LET b == SerdeFromReader(handle)
     IN  /\ serdeRes' = b
         /\ result' = IF b.ok THEN Ok(b.bundle) ELSE FromSerdeError(b.err)
  /\ serdeCalls' = serdeCalls + 1
  /\ readB' = IF handle.kind = "file" THEN Some(handle.text) ELSE None
  /\ pc' = "done"
  /\ UNCHANGED <<checksKeyOrder, fs, handle, linked, entry, json_data, canonRes,
                 canonCalls, readA, held, openLog, envSteps>>

\* ------------------------------------------------- the other processes
\* A change before the first open is a call on another file (Init), so the
\* other processes act from the first open on.
InFileCall == pc \in {"file_canonical", "file_reopen", "file_permissive"}

\* Another process removes the file; a File already open keeps its content.
EnvRemove ==
  /\ InFileCall
  /\ envSteps < MaxEnvSteps
  /\ fs.kind # "missing"
  /\ fs' = Missing
  /\ linked' = FALSE
  /\ held' = held \cup {Missing}
  /\ envSteps' = envSteps + 1
  /\ UNCHANGED <<checksKeyOrder, handle, entry, pc, json_data, canonRes, serdeRes,
                 result, canonCalls, serdeCalls, readA, readB, openLog>>

\* Another process writes t to the path: in place when the file is there (a File
\* open on it reads the new content), as a new file when it is not.
EnvWrite(t) ==
  /\ InFileCall
  /\ envSteps < MaxEnvSteps
  /\ fs.kind # "dir"
  /\ fs # RegularFile(t)
  /\ fs' = RegularFile(t)
  /\ handle' = IF linked /\ fs.kind = "file" THEN RegularFile(t) ELSE handle
  /\ held' = held \cup {RegularFile(t)}
  /\ envSteps' = envSteps + 1
  /\ UNCHANGED <<checksKeyOrder, linked, entry, pc, json_data, canonRes, serdeRes,
                 result, canonCalls, serdeCalls, readA, readB, openLog>>

Next ==
  \/ CallFromStr
  \/ StrCanonical
  \/ StrPermissive
  \/ CallFromFile
  \/ FileOpen
  \/ FileCanonical
  \/ FileReopen
  \/ FilePermissive
  \/ EnvRemove
  \/ \E t \in EnvTexts : EnvWrite(t)

Spec == Init /\ [][Next]_vars

\* ------------------------------------------------ what the claims speak of
\* The call has ended: it returned, or it panicked.
Ended == pc \in {"done", "panicked"}

\* The call returned Err of the given BundleParseError kind.
ReturnedKind(v) == pc = "done" /\ result.tag = "Err" /\ result.variant = v

\* The text is valid JSON; it holds every required key; its keys are sorted.
ValidJson(t) == ~t.eof

Conformant(t) == MissingRequired(t.mem) = {}

SortedAt(t, i) == i = 1 \/ Rank(t.mem[i].k) > Rank(t.mem[i - 1].k)

SortedKeys(t) == \A i \in 1..Len(t.mem) : SortedAt(t, i)

CanonicalText(t) == ValidJson(t) /\ t.ws = 0 /\ SortedKeys(t)

\* Whitespace is the first departure from canonical form: every key before it is in order.
WhitespaceFirst(t) ==
  t.ws # 0 /\ \A i \in 1..Len(t.mem) : i < t.ws => SortedAt(t, i)

\* The canonical form of a valid text: the same members sorted by key, no whitespace.
CanonicalForm(t) ==
  [mem |-> [i \in 1..Len(t.mem) |->
              CHOOSE m \in {t.mem[j] : j \in 1..Len(t.mem)} :
                Cardinality({j \in 1..Len(t.mem) : Rank(t.mem[j].k) < Rank(m.k)}) = i - 1],
   ws |-> 0,
   eof |-> FALSE]

\* The text with every absent required / modifies / stateless key written out as false.
GivenOrFalse(x) == IF x = <<>> THEN <<FALSE>> ELSE x

FillMember(m) ==
  IF m.k = "parameters"
    THEN Member(m.k, [n \in DOMAIN m.map |->
                        [m.map[n] EXCEPT !.required = GivenOrFalse(@)]])
  ELSE IF m.k = "actions"
    THEN Member(m.k, [n \in DOMAIN m.map |->
                        [m.map[n] EXCEPT !.modifies = GivenOrFalse(@),
                                         !.stateless = GivenOrFalse(@)]])
  ELSE m

FillDefaults(t) == [t EXCEPT !.mem = [i \in 1..Len(t.mem) |-> FillMember(t.mem[i])]]

\* Every field of the Bundle b is the value the member list gives its key, and a
\* key the list does not hold is None.
FieldsMatch(b, mem) ==
  /\ b.name = Get(mem, "name")
  /\ b.schema_version = Get(mem, "schemaVersion")
  /\ b.version = Get(mem, "version")
  /\ b.invocation_images = Get(mem, "invocationImages")
  /\ b.description = IF Has(mem, "description") THEN <<Get(mem, "description")>> ELSE <<>>
  /\ IF Has(mem, "parameters")
       THEN /\ Len(b.parameters) = 1
            /\ DOMAIN b.parameters[1] = DOMAIN Get(mem, "parameters")
            /\ \A n \in DOMAIN Get(mem, "parameters") :
                 LET o == Get(mem, "parameters")[n]
                 IN  /\ b.parameters[1][n].destination = o.destination
                     /\ b.parameters[1][n].parameter_type = o.type
                     /\ o.required # <<>> => b.parameters[1][n].required = o.required[1]
       ELSE b.parameters = <<>>
  /\ IF Has(mem, "actions")
       THEN /\ Len(b.actions) = 1
            /\ DOMAIN b.actions[1] = DOMAIN Get(mem, "actions")
            /\ \A n \in DOMAIN Get(mem, "actions") :
                 LET o == Get(mem, "actions")[n]
                 IN  /\ o.modifies # <<>> => b.actions[1][n].modifies = o.modifies[1]
                     /\ o.stateless # <<>> => b.actions[1][n].stateless = o.stateless[1]
       ELSE b.actions = <<>>

\* In the Bundle b decoded from the member list, an absent required, modifies or
\* stateless key is false and a given one holds the given value.
DefaultsHold(b, mem) ==
  /\ Has(mem, "parameters") =>
       \A n \in DOMAIN Get(mem, "parameters") :
         b.parameters[1][n].required =
           (IF Get(mem, "parameters")[n].required = <<>> THEN FALSE
            ELSE Get(mem, "parameters")[n].required[1])
  /\ Has(mem, "actions") =>
       \A n \in DOMAIN Get(mem, "actions") :
         /\ b.actions[1][n].modifies =
              (IF Get(mem, "actions")[n].modifies = <<>> THEN FALSE
               ELSE Get(mem, "actions")[n].modifies[1])
         /\ b.actions[1][n].stateless =
              (IF Get(mem, "actions")[n].stateless = <<>> THEN FALSE
               ELSE Get(mem, "actions")[n].stateless[1])

\* The text the returned Bundle was decoded from.
DecidingText == IF serdeCalls = 1 THEN readB[1] ELSE readA[1]

OpenFailed == \E i \in 1..Len(openLog) : openLog[i] = "failed"

ReadFailed == canonRes.err.kind = "Io" \/ serdeRes.err.kind = "Io"

\* The file held one text from the call's start to its end.
FileUnchanged == held = {RegularFile(json_data)}

\* ------------------------------------------------------------ the claims
\* C1: in from_file and from_str the permissive decode is started if and only if the
\* canonical decode was started first and failed with Syntax(UnexpectedWhitespace);
\* it is started at most once and its result is what the call returns; when the
\* canonical decode fails otherwise, that failure is returned and the permissive
\* decode is not started.
C1_FallbackIffWhitespace ==
  Ended =>
    /\ serdeCalls <= 1
    /\ serdeCalls = 1 <=> (canonCalls = 1 /\ IsUnexpectedWhitespace(canonRes))
    /\ serdeCalls = 1 =>
         /\ pc = "done"
         /\ result = IF serdeRes.ok THEN Ok(serdeRes.bundle) ELSE FromSerdeError(serdeRes.err)
    /\ (canonCalls = 1 /\ ~canonRes.ok /\ ~IsUnexpectedWhitespace(canonRes)) =>
         /\ pc = "done"
         /\ result = FromCanonicalError(canonRes.err)
         /\ serdeCalls = 0

C3_CanonicalDecodesAlone ==
  (entry = "from_str" /\ pc = "done" /\ CanonicalText(json_data) /\ Conformant(json_data)) =>
    /\ result.tag = "Ok"
    /\ canonCalls = 1
    /\ serdeCalls = 0
    /\ FieldsMatch(result.bundle[1], json_data.mem)

\* from_str returned a Bundle for a canonical text with parameters and no description.
C3_Witness ==
  /\ entry = "from_str" /\ pc = "done"
  /\ CanonicalText(json_data) /\ Conformant(json_data)
  /\ Has(json_data.mem, "parameters") /\ ~Has(json_data.mem, "description")
  /\ result.tag = "Ok" /\ result.bundle[1].description = None

C5_MissingFileIsIoError ==
  (entry = "from_file" /\ Len(openLog) >= 1 /\ openLog[1] = "failed") =>
    /\ ReturnedKind("IoError")
    /\ canonCalls = 0
    /\ serdeCalls = 0

\* from_file was called on a path that does not exist, and ended.
C5_Witness ==
  entry = "from_file" /\ openLog = <<"failed">> /\ Ended

\* C6: every call ends by returning Ok or Err of one of the three kinds; no
\* failure ends it otherwise, the failure of the second open included.
C6_EveryFailureIsTyped ==
  Ended =>
    /\ pc = "done"
    /\ \/ result.tag = "Ok"
       \/ /\ result.tag = "Err"
          /\ result.variant \in {"IoError", "CanonicalJSONError", "SerdeJSONError"}

\* C7: IoError is returned only by from_file and exactly when the source could not
\* be opened or read; SerdeJSONError exactly when the permissive decode ran and
\* failed; CanonicalJSONError exactly when the canonical decode failed for a reason
\* other than UnexpectedWhitespace.
C7_KindNamesTheStage ==
  Ended =>
    /\ ReturnedKind("IoError") <=> (entry = "from_file" /\ (OpenFailed \/ ReadFailed))
    /\ ReturnedKind("SerdeJSONError") <=> (serdeCalls = 1 /\ ~serdeRes.ok)
    /\ ReturnedKind("CanonicalJSONError") <=>
         (canonCalls = 1 /\ ~canonRes.ok /\ ~IsUnexpectedWhitespace(canonRes))

\* C8: when the file holds the text t from the start of from_file to its end,
\* from_file returns what from_str(t) returns: the same Bundle, or the same error
\* of the same kind.
C8_FileAgreesWithStr ==
  (entry = "from_file" /\ Ended /\ FileUnchanged) =>
    /\ pc = "done"
    /\ result = FromStrOutcome(json_data, checksKeyOrder)

\* from_file, on an unchanged file, returned the error of the permissive decode.
C8_Witness ==
  /\ entry = "from_file" /\ pc = "done" /\ FileUnchanged
  /\ serdeCalls = 1
  /\ ReturnedKind("SerdeJSONError")

\* C9: in every Bundle returned, an absent required, modifies or stateless key is
\* false and a given one holds its value; and from_str returns for a text what it
\* returns for the text with these keys written out as false.
C9_DefaultBooleans ==
  pc = "done" =>
    /\ result.tag = "Ok" => DefaultsHold(result.bundle[1], DecidingText.mem)
    /\ entry = "from_str" =>
         result = FromStrOutcome(FillDefaults(json_data), checksKeyOrder)

\* The permissive decode returned a Bundle for a text whose parameter has no
\* required key.
C9_Witness ==
  /\ pc = "done" /\ result.tag = "Ok" /\ serdeCalls = 1
  /\ Has(DecidingText.mem, "parameters")
  /\ \E n \in DOMAIN Get(DecidingText.mem, "parameters") :
       /\ Get(DecidingText.mem, "parameters")[n].required = <<>>
       /\ result.bundle[1].parameters[1][n].required = FALSE

\* C10: when other processes only rewrite the file during from_file, the call
\* returns what from_str returns on one text the file held, and the two decodes
\* never read two different texts.
C10_OneContentDecides ==
  (entry = "from_file" /\ pc = "done" /\ \A h \in held : h.kind = "file") =>
    /\ \E h \in held : result = FromStrOutcome(h.text, checksKeyOrder)
    /\ (canonCalls = 1 /\ serdeCalls = 1) => readA = readB

====
